---- MODULE Spec2Model ----
(***************************************************************************)
(* Model of the generator pipeline of src/demo/script.py together with    *)
(* its helpers src/jiralib.py and src/linkly.py.                          *)
(*                                                                         *)
(* Texts are sequences of one-character strings.  The contents of prompt  *)
(* files are represented by their lengths (number of whitespace characters *)
(* removed by strip() and number of characters left), since the loader    *)
(* only ever measures and slices them.                                    *)
(***************************************************************************)
EXTENDS Integers, Sequences, FiniteSets, TLC

VARIABLES
    fs,             \* the filesystem: directory path -> directory
    prompts_dir,    \* load_prompts_context: the argument of the current (or last) call
    pc,             \* position of the running load_prompts_context call: "idle" or "loop"
    sorted_files,   \* load_prompts_context: local sorted_files
    idx,            \* load_prompts_context: index of the next file of the for loop
    total_chars,    \* load_prompts_context: local total_chars
    context_parts,  \* load_prompts_context: local context_parts
    log,            \* load_prompts_context: the per-file lines printed by the current load
    context,        \* PhishingEmailGenerator.context (the cached documents block)
    load_ret,       \* value returned by the last load_prompts_context call
    linkly_email,         \* PhishingEmailGenerator.linkly_email (LINKLY_EMAIL)
    linkly_api_key,       \* PhishingEmailGenerator.linkly_api_key (LINKLY_API_KEY)
    linkly_workspace_id,  \* PhishingEmailGenerator.linkly_workspace_id (LINKLY_WORKSPACE_ID)
    backend,        \* what the link-minting backend answers to a request
    posts,          \* the payloads POSTed to the minting backend by the last call
    jira_tickets,   \* PhishingEmailGenerator.jira_tickets
    jira_backend,   \* what the record-tracking backend answered to the last fetch
    op,             \* the last call that returned
    arg,            \* its argument
    ret,            \* its return value
    exc,            \* whether it raised instead of returning
    openai_key,     \* OPENAI_API_KEY of the environment
    prompt,         \* the last prompt sent to the text-generation backend
    prev_prompt,    \* the prompt sent before that one
    gen_backend,    \* what the text-generation backend did with the last request
    mpc,            \* position of main
    trace,          \* the stages main has gone through, in order
    inputs,         \* main: target_email, impersonate, prompts_folder
    main_email,     \* main: local phishing_email
    saved,          \* what save_results wrote
    shown           \* what show_email_gui displayed

loadVars == <<fs, prompts_dir, pc, sorted_files, idx, total_chars, context_parts, log,
              context, load_ret>>
linkVars == <<linkly_email, linkly_api_key, linkly_workspace_id, backend, posts>>
jiraVars == <<jira_tickets, jira_backend>>
callVars == <<op, arg, ret, exc>>
genVars == <<openai_key, prompt, prev_prompt, gen_backend>>
mainVars == <<mpc, trace, inputs, main_email, saved, shown>>
vars == <<loadVars, linkVars, jiraVars, callVars, genVars, mainVars>>

\* ---------------------------------------------------------------- bounds
MaxFiles == 3

\* ------------------------------------------------------- program constants
max_context_chars == 90000
MinRemaining == 100
TruncSuffixLen == 15
BannerLen == 27
EndBannerLen == 24
HeaderPrefixLen == 5
HeaderSuffixLen == 4
PriorityMarkerLen == 11

\* ------------------------------------------------------------ text helpers
\* an optional string: None, or a sequence of characters
NoneVal == [none |-> TRUE, s |-> <<>>]
Str(s) == [none |-> FALSE, s |-> s]

\* truth value of an optional string in a Python condition
Truthy(v) == ~v.none /\ v.s # <<>>

\* "sub in s" of Python, on sequences of characters
Contains(s, sub) ==
    \E i \in 1..(Len(s) - Len(sub) + 1) : SubSeq(s, i, i + Len(sub) - 1) = sub

\* str.endswith
EndsWith(s, suf) ==
    /\ Len(s) >= Len(suf)
    /\ SubSeq(s, Len(s) - Len(suf) + 1, Len(s)) = suf

\* str.lower() of one character (the upper-case letters that occur in the file names)
LowerChar(c) ==
    CASE c = "C" -> "c"
      [] c = "O" -> "o"
      [] c = "N" -> "n"
      [] c = "T" -> "t"
      [] c = "E" -> "e"
      [] c = "X" -> "x"
      [] OTHER -> c

\* str.lower()
Lower(s) == [i \in 1..Len(s) |-> LowerChar(s[i])]

ContextWord == <<"c","o","n","t","e","x","t">>
TxtSuffix == <<".","t","x","t">>

\* ------------------------------------------------------------- file system
\* a directory: whether the path exists and its entries in discovery order
NoDir == [exists |-> FALSE, entries |-> <<>>]
Dir(l) == [exists |-> TRUE, entries |-> l]
DefaultDir == "./prompts"
OtherDir == "./custom"
DirPaths == {DefaultDir, OtherDir}

NameContextOrg == <<"c","o","n","t","e","x","t","_","o","r","g",".","t","x","t">>
NameNotes == <<"n","o","t","e","s",".","t","x","t">>
NameContextCap == <<"C","o","n","t","e","x","t",".","t","x","t">>
NameA == <<"a",".","t","x","t">>
NameReadme == <<"r","e","a","d","m","e",".","m","d">>

TxtNames == {NameContextOrg, NameNotes, NameContextCap, NameA}

\* lengths of the stripped file contents that the model draws from
SmallLen == 1
MidLen == 2000
NearFullLen == max_context_chars - MinRemaining - 1
AlmostFullLen == max_context_chars - 50
OverLen == max_context_chars + 1
BodyLens == {0, SmallLen, MidLen, NearFullLen, AlmostFullLen, OverLen}

\* A file: its name, whether open()/read() succeeds, the number of leading and
\* trailing whitespace characters (ws) and of the characters between them (body).
TxtFiles ==
    [name : TxtNames, readable : {TRUE}, ws : {1}, body : BodyLens]
    \cup [name : TxtNames, readable : {FALSE}, ws : {0}, body : {0}]
OtherFiles == {[name |-> NameReadme, readable |-> TRUE, ws |-> 0, body |-> 5]}
Files == TxtFiles \cup OtherFiles

\* the names in one directory are pairwise different
DistinctNames(l) == \A i, j \in 1..Len(l) : l[i].name = l[j].name => i = j

\* ------------------------------------------------- load_prompts_context
\* glob.glob(os.path.join(prompts_dir, "*.txt")) on a listing
Glob(listing) ==
    SelectSeq(listing, LAMBDA f : EndsWith(f.name, TxtSuffix) /\ f.name[1] # ".")

\* "context" in os.path.basename(f).lower()
IsContextName(name) == Contains(Lower(name), ContextWord)

\* variant: the files are left in discovery order
SortFilesDiscoveryOrder(txt_files) == txt_files

\* sorted_files = context_files + other_files
SortFiles(txt_files) ==
    SelectSeq(txt_files, LAMBDA f : IsContextName(f.name))
        \o SelectSeq(txt_files, LAMBDA f : ~IsContextName(f.name))

\* f.read().strip(): the length of what is left
StripLen(f) == f.body

\* variant: the limit test looks at the file alone and forgets the running total
ProcessFileNoRunningTotal(f, total) ==
    IF ~f.readable THEN [outcome |-> "error", take |-> 0, truncated |-> FALSE]
    ELSE IF StripLen(f) = 0 THEN [outcome |-> "empty", take |-> 0, truncated |-> FALSE]
    ELSE IF StripLen(f) > max_context_chars
         THEN IF max_context_chars - total > MinRemaining
              THEN [outcome |-> "added", take |-> max_context_chars - total,
                    truncated |-> TRUE]
              ELSE [outcome |-> "skipped", take |-> 0, truncated |-> FALSE]
         ELSE [outcome |-> "added", take |-> StripLen(f), truncated |-> FALSE]

\* variant: the threshold test looks at the content length, not at the remaining budget
ProcessFileThresholdOnContent(f, total) ==
    IF ~f.readable THEN [outcome |-> "error", take |-> 0, truncated |-> FALSE]
    ELSE IF StripLen(f) = 0 THEN [outcome |-> "empty", take |-> 0, truncated |-> FALSE]
    ELSE IF total + StripLen(f) > max_context_chars
         THEN IF StripLen(f) > MinRemaining
              THEN [outcome |-> "added", take |-> max_context_chars - total,
                    truncated |-> TRUE]
              ELSE [outcome |-> "skipped", take |-> 0, truncated |-> FALSE]
         ELSE [outcome |-> "added", take |-> StripLen(f), truncated |-> FALSE]

\* variant: the section of a file is opened before the file is read
ProcessFileHeaderBeforeRead(f, total) ==
    IF ~f.readable THEN [outcome |-> "added", take |-> 0, truncated |-> FALSE]
    ELSE IF StripLen(f) = 0 THEN [outcome |-> "empty", take |-> 0, truncated |-> FALSE]
    ELSE IF total + StripLen(f) > max_context_chars
         THEN IF max_context_chars - total > MinRemaining
              THEN [outcome |-> "added", take |-> max_context_chars - total,
                    truncated |-> TRUE]
              ELSE [outcome |-> "skipped", take |-> 0, truncated |-> FALSE]
         ELSE [outcome |-> "added", take |-> StripLen(f), truncated |-> FALSE]

\* variant: the branch for a content that does not fit keeps the whole content
ProcessFileNoSlice(f, total) ==
    IF ~f.readable THEN [outcome |-> "error", take |-> 0, truncated |-> FALSE]
    ELSE IF StripLen(f) = 0 THEN [outcome |-> "empty", take |-> 0, truncated |-> FALSE]
    ELSE IF total + StripLen(f) > max_context_chars
         THEN IF max_context_chars - total > MinRemaining
              THEN [outcome |-> "added", take |-> StripLen(f), truncated |-> TRUE]
              ELSE [outcome |-> "skipped", take |-> 0, truncated |-> FALSE]
         ELSE [outcome |-> "added", take |-> StripLen(f), truncated |-> FALSE]

\* One iteration of the for loop on file f with the running total_chars:
\* what is printed for the file, how many characters of the content are kept,
\* whether the truncation suffix is appended.
ProcessFile(f, total) ==
    IF ~f.readable THEN [outcome |-> "error", take |-> 0, truncated |-> FALSE]
    ELSE IF StripLen(f) = 0 THEN [outcome |-> "empty", take |-> 0, truncated |-> FALSE]
    ELSE IF total + StripLen(f) > max_context_chars
         THEN IF max_context_chars - total > MinRemaining
              THEN [outcome |-> "added", take |-> max_context_chars - total,
                    truncated |-> TRUE]
              ELSE [outcome |-> "skipped", take |-> 0, truncated |-> FALSE]
         ELSE [outcome |-> "added", take |-> StripLen(f), truncated |-> FALSE]

\* len(content) of the content that is appended
EmitLen(r) == r.take + (IF r.truncated THEN TruncSuffixLen ELSE 0)

\* variant: a truncated content is not counted
NextTotalFullOnly(r, total) ==
    IF r.outcome = "added" /\ ~r.truncated THEN total + EmitLen(r) ELSE total

\* total_chars after the iteration
NextTotal(r, total) == IF r.outcome = "added" THEN total + EmitLen(r) ELSE total

Part(kind, name, priority, take, truncated) ==
    [kind |-> kind, name |-> name, priority |-> priority, take |-> take,
     truncated |-> truncated]

BannerPart == Part("banner", <<>>, FALSE, 0, FALSE)
EndBannerPart == Part("end", <<>>, FALSE, 0, FALSE)

\* the two entries appended to context_parts for an added file
EmitParts(f, r) ==
    << Part("header", f.name, IsContextName(f.name), 0, FALSE),
       Part("content", f.name, IsContextName(f.name), r.take, r.truncated) >>

\* len() of one entry of context_parts
PartLen(p) ==
    CASE p.kind = "banner" -> BannerLen
      [] p.kind = "end" -> EndBannerLen
      [] p.kind = "header" ->
            HeaderPrefixLen + Len(p.name)
                + (IF p.priority THEN PriorityMarkerLen ELSE 0) + HeaderSuffixLen
      [] OTHER -> p.take + (IF p.truncated THEN TruncSuffixLen ELSE 0)

RECURSIVE SumLen(_)
SumLen(parts) ==
    IF parts = <<>> THEN 0 ELSE PartLen(Head(parts)) + SumLen(Tail(parts))

\* len("\n".join(parts)); the empty string is the empty sequence of parts
BlockLen(parts) ==
    IF parts = <<>> THEN 0 ELSE SumLen(parts) + (Len(parts) - 1)

LogLine(f, r, total) ==
    [name |-> f.name, outcome |-> r.outcome, chars |-> EmitLen(r),
     truncated |-> r.truncated, size |-> StripLen(f), before |-> total]

\* variant: only the missing directory returns early
NoSourcesMissingOnly(d) == ~d.exists

\* the two early returns: the directory does not exist, or glob finds no .txt file
NoSources(d) == ~d.exists \/ Glob(d.entries) = <<>>

\* load_prompts_context(prompts_dir) up to the start of the for loop
LoadBegin(dir) ==
    /\ pc = "idle"
    /\ prompts_dir' = dir
    /\ IF NoSources(fs[dir])
       THEN /\ load_ret' = <<>>
            /\ sorted_files' = <<>>
            /\ context_parts' = <<>>
            /\ log' = <<>>
            /\ op' = "load_prompts_context"
            /\ exc' = FALSE
            /\ UNCHANGED <<pc, context, arg, ret>>
       ELSE /\ sorted_files' = SortFiles(Glob(fs[dir].entries))
            /\ context_parts' = <<BannerPart>>
            /\ log' = <<>>
            /\ pc' = "loop"
            /\ UNCHANGED <<context, load_ret, callVars>>
    /\ idx' = 1
    /\ total_chars' = 0
    /\ UNCHANGED fs
    /\ UNCHANGED <<linkVars, jiraVars, genVars, mainVars>>

\* one iteration of "for file_path in sorted_files"
LoadStep ==
    /\ pc = "loop"
    /\ idx <= Len(sorted_files)
    /\ LET f == sorted_files[idx]
           r == ProcessFile(f, total_chars)
       IN /\ log' = Append(log, LogLine(f, r, total_chars))
          /\ total_chars' = NextTotal(r, total_chars)
          /\ context_parts' = IF r.outcome = "added"
                              THEN context_parts \o EmitParts(f, r)
                              ELSE context_parts
    /\ idx' = idx + 1
    /\ UNCHANGED <<fs, prompts_dir, pc, sorted_files, context, load_ret>>
    /\ UNCHANGED <<linkVars, jiraVars, callVars, genVars, mainVars>>

\* after the loop: the closing banner, the join, the store into self.context
LoadEnd ==
    /\ pc = "loop"
    /\ idx > Len(sorted_files)
    /\ context_parts' = Append(context_parts, EndBannerPart)
    /\ context' = context_parts'
    /\ load_ret' = context_parts'
    /\ pc' = "idle"
    /\ op' = "load_prompts_context"
    /\ exc' = FALSE
    /\ UNCHANGED <<fs, prompts_dir, sorted_files, idx, total_chars, log, arg, ret>>
    /\ UNCHANGED <<linkVars, jiraVars, genVars, mainVars>>

\* The environment creates the prompts directory with its files (between calls).
PopulateDir ==
    /\ pc = "idle"
    /\ ~fs[DefaultDir].exists
    /\ \E n \in 0..MaxFiles : \E l \in [1..n -> Files] :
            /\ DistinctNames(l)
            /\ fs' = [fs EXCEPT ![DefaultDir] = Dir(l)]
    /\ UNCHANGED <<prompts_dir, pc, sorted_files, idx, total_chars, context_parts, log,
                   context, load_ret>>
    /\ UNCHANGED <<linkVars, jiraVars, callVars, genVars, mainVars>>

\* PhishingEmailGenerator.__init__: no context loaded; no prompts directory yet
InitLoadVars ==
    /\ fs = [d \in DirPaths |-> NoDir]
    /\ prompts_dir = DefaultDir
    /\ pc = "idle"
    /\ sorted_files = <<>>
    /\ idx = 1
    /\ total_chars = 0
    /\ context_parts = <<>>
    /\ log = <<>>
    /\ context = <<>>
    /\ load_ret = <<>>

\* PhishingEmailGenerator.__init__: no call has returned yet
InitCallVars ==
    /\ op = "init"
    /\ arg = <<>>
    /\ ret = <<>>
    /\ exc = FALSE

\* PhishingEmailGenerator.__init__ in an environment without Linkly variables
InitLinkVars ==
    /\ linkly_email = NoneVal
    /\ linkly_api_key = NoneVal
    /\ linkly_workspace_id = NoneVal
    /\ backend = [kind |-> "error"]
    /\ posts = <<>>

\* PhishingEmailGenerator.__init__ succeeded; nothing was sent; main is not running
InitPipeVars ==
    /\ openai_key = Str(<<"s","k">>)
    /\ prompt = <<>>
    /\ prev_prompt = <<>>
    /\ gen_backend = [kind |-> "none", content |-> NoneVal]
    /\ mpc = "none"
    /\ trace = <<>>
    /\ inputs = [target_email |-> <<>>, impersonate |-> <<>>, prompts_folder |-> DefaultDir]
    /\ main_email = NoneVal
    /\ saved = <<>>
    /\ shown = <<>>

\* PhishingEmailGenerator.__init__: self.jira_tickets = []
InitJiraVars ==
    /\ jira_tickets = <<>>
    /\ jira_backend = [kind |-> "none", issues |-> <<>>]

InitLoad == InitLoadVars /\ InitLinkVars /\ InitJiraVars /\ InitCallVars /\ InitPipeVars

NextLoad ==
    \/ PopulateDir
    \/ \E d \in DirPaths : LoadBegin(d)
    \/ LoadStep
    \/ LoadEnd

SpecLoad == InitLoad /\ [][NextLoad]_vars

\* ------------------------------------------------ properties of the loader
\* position of a file name in the discovery order of the loaded directory
Pos(name) ==
    CHOOSE i \in 1..Len(fs[prompts_dir].entries) : fs[prompts_dir].entries[i].name = name

\* the section headers of the block under construction, in order
Headers == SelectSeq(context_parts, LAMBDA p : p.kind = "header")

\* a log line of a readable, non-empty file
HasContent(e) == e.outcome \in {"added", "skipped"}

\* C3: after every appended fragment total_chars <= max_context_chars; a fragment
\* that would overflow is cut to exactly the remaining budget, or dropped when the
\* remaining budget is <= 100.
C3_BudgetInvariant ==
    /\ total_chars <= max_context_chars
    /\ \A i \in DOMAIN log :
        LET e == log[i] IN
        (HasContent(e) /\ e.before + e.size > max_context_chars) =>
            IF max_context_chars - e.before <= MinRemaining
            THEN e.outcome = "skipped"
            ELSE e.outcome = "added" /\ e.chars = max_context_chars - e.before

\* C4 as stated: the length of the returned block never exceeds the limit plus the
\* length of the two banners (and the newline that joins them).
BannerOverhead == BannerLen + EndBannerLen + 1
C4_BlockWithinBanners ==
    BlockLen(load_ret) <= max_context_chars + BannerOverhead

\* header line and the two joining newlines of every emitted section
SectionOverhead(parts) ==
    LET hs == SelectSeq(parts, LAMBDA p : p.kind = "header")
    IN SumLen(hs) + 2 * Len(hs)

\* C4 amended: the length of the returned block never exceeds the limit plus the
\* truncation suffix plus the banners plus the header line and the two separators of
\* each emitted section.
C4_BlockWithinBudgetAndHeaders ==
    BlockLen(load_ret) <=
        max_context_chars + TruncSuffixLen + BannerOverhead + SectionOverhead(load_ret)

\* a finished load returned a block with two sections, the second one truncated
C4_Witness ==
    /\ pc = "idle"
    /\ Len(SelectSeq(load_ret, LAMBDA p : p.kind = "header")) >= 2
    /\ \E k \in DOMAIN load_ret : load_ret[k].truncated
    /\ BlockLen(load_ret) > max_context_chars + BannerOverhead

\* C5: once a source has been truncated, no later source is added; the truncated
\* fragment is the last section of the block.
C5_TruncatedIsLast ==
    /\ \A i, j \in DOMAIN log :
        (i < j /\ log[i].truncated) => log[j].outcome # "added"
    /\ \A k, m \in DOMAIN context_parts :
        (k < m /\ context_parts[k].kind = "content" /\ context_parts[k].truncated)
            => context_parts[m].kind \notin {"header", "content"}

\* a finished load truncated one source and then met a later non-empty source
C5_Witness ==
    /\ pc = "idle"
    /\ load_ret # <<>>
    /\ \E i, j \in DOMAIN log : i < j /\ log[i].truncated /\ HasContent(log[j])

\* C6 as stated: after a source was skipped for lack of budget, no later source is
\* added.
C6_NothingAfterSkip ==
    \A i, j \in DOMAIN log :
        (i < j /\ log[i].outcome = "skipped") => log[j].outcome # "added"

\* C6 amended: after a source was skipped for lack of budget, a later readable
\* non-empty source is added exactly when its whole content fits in the remaining
\* budget, and then it is added in full; no later source is truncated.
C6_AfterSkipOnlyFitting ==
    \A i, j \in DOMAIN log :
        (i < j /\ log[i].outcome = "skipped" /\ HasContent(log[j])) =>
            /\ log[j].outcome = "added"
                    <=> log[j].before + log[j].size <= max_context_chars
            /\ log[j].outcome = "added"
                    => ~log[j].truncated /\ log[j].chars = log[j].size

\* a load skipped one source and added a later one
C6_Witness ==
    \E i, j \in DOMAIN log :
        i < j /\ log[i].outcome = "skipped" /\ log[j].outcome = "added"

\* C7: in the block every section of a file whose name contains "context" comes
\* before every section of a file whose name does not; within each class the
\* sections keep the discovery order.
C7_PriorityFirst ==
    \A a, b \in DOMAIN Headers :
        a < b =>
            /\ ~(~IsContextName(Headers[a].name) /\ IsContextName(Headers[b].name))
            /\ (IsContextName(Headers[a].name) = IsContextName(Headers[b].name))
                    => Pos(Headers[a].name) < Pos(Headers[b].name)

\* a block with a priority section whose file was discovered after the file of a
\* non-priority section, and with two sections of one class
C7_Witness ==
    /\ \E a, b \in DOMAIN Headers :
        /\ IsContextName(Headers[a].name) /\ ~IsContextName(Headers[b].name)
        /\ Pos(Headers[a].name) > Pos(Headers[b].name)
    /\ \E a, b \in DOMAIN Headers :
        a < b /\ IsContextName(Headers[a].name) = IsContextName(Headers[b].name)

\* C18: when the prompts directory does not exist, or has no .txt file directly
\* under it, load_prompts_context returns the empty context and raises nothing.
C18_NoSourcesEmptyContext ==
    (/\ op = "load_prompts_context"
     /\ pc = "idle"
     /\ \/ ~fs[prompts_dir].exists
        \/ \A i \in DOMAIN fs[prompts_dir].entries :
                ~EndsWith(fs[prompts_dir].entries[i].name, TxtSuffix))
    => load_ret = <<>> /\ ~exc

\* a load of an existing directory that holds files, none of them a .txt file
C18_Witness ==
    /\ op = "load_prompts_context"
    /\ pc = "idle"
    /\ fs[prompts_dir].exists
    /\ fs[prompts_dir].entries # <<>>
    /\ Glob(fs[prompts_dir].entries) = <<>>

\* the sections a load emits for the files in order, starting with total consumed
RECURSIVE Sections(_, _)
Sections(files, total) ==
    IF files = <<>> THEN <<>>
    ELSE LET r == ProcessFile(Head(files), total)
         IN (IF r.outcome = "added" THEN EmitParts(Head(files), r) ELSE <<>>)
                \o Sections(Tail(files), NextTotal(r, total))

\* the sections of a block: everything between the two banners
SectionsOf(block) == SelectSeq(block, LAMBDA p : p.kind \in {"header", "content"})

\* the directory of the load without its unreadable files
ReadableEntries == SelectSeq(fs[prompts_dir].entries, LAMBDA f : f.readable)

\* C19: a source that cannot be read is skipped and nothing else: the loop goes on
\* to the last file, the source consumes no budget and has no section, and the
\* other sources are emitted as they are from the directory without that source.
C19_ReadFailureSkipsOnlyThatSource ==
    /\ \A i \in DOMAIN log :
        log[i].outcome = "error" =>
            /\ \A k \in DOMAIN context_parts : context_parts[k].name # log[i].name
            /\ (i < Len(log) => log[i + 1].before = log[i].before)
            /\ (i = Len(log) /\ pc = "loop") => total_chars = log[i].before
    /\ (op = "load_prompts_context" /\ pc = "idle" /\ sorted_files # <<>>) =>
            /\ Len(log) = Len(sorted_files)
            /\ SectionsOf(load_ret) = Sections(SortFiles(Glob(ReadableEntries)), 0)

\* a finished load met an unreadable source between two sources that it added
C19_Witness ==
    /\ op = "load_prompts_context"
    /\ pc = "idle"
    /\ \E i, j, k \in DOMAIN log :
        /\ i < j /\ j < k
        /\ log[i].outcome = "added"
        /\ log[j].outcome = "error"
        /\ log[k].outcome = "added"

\* ---------------------------------------------------------------- linkly.py
MaxPieces == 4

Marker == <<"L","I","N","K","_","H","E","R","E">>
DestUrl == "https://www.method.me"

\* str.count(sub): the non-overlapping occurrences of sub in s from position i on
RECURSIVE CountFrom(_, _, _)
CountFrom(s, sub, i) ==
    IF i + Len(sub) - 1 > Len(s) THEN 0
    ELSE IF SubSeq(s, i, i + Len(sub) - 1) = sub
         THEN 1 + CountFrom(s, sub, i + Len(sub))
         ELSE CountFrom(s, sub, i + 1)

CountOcc(s, sub) == CountFrom(s, sub, 1)

\* str.replace(sub, new) from position i on: leftmost non-overlapping occurrences
RECURSIVE ReplaceFrom(_, _, _, _)
ReplaceFrom(s, sub, new, i) ==
    IF i > Len(s) THEN <<>>
    ELSE IF i + Len(sub) - 1 <= Len(s) /\ SubSeq(s, i, i + Len(sub) - 1) = sub
         THEN new \o ReplaceFrom(s, sub, new, i + Len(sub))
         ELSE <<s[i]>> \o ReplaceFrom(s, sub, new, i + 1)

StrReplace(s, sub, new) == ReplaceFrom(s, sub, new, 1)

\* int(s) on the strings the model draws from: surrounding blanks are ignored, then
\* an optional sign, then one or more decimal digits
Digits == <<"0","1","2","3","4","5","6","7","8","9">>
IsDigit(c) == \E d \in 1..10 : Digits[d] = c
DigitVal(c) == (CHOOSE d \in 1..10 : Digits[d] = c) - 1

RECURSIVE Trim(_)
Trim(s) ==
    IF s = <<>> THEN s
    ELSE IF Head(s) = " " THEN Trim(Tail(s))
    ELSE IF s[Len(s)] = " " THEN Trim(SubSeq(s, 1, Len(s) - 1))
    ELSE s

Unsigned(s) == IF s # <<>> /\ Head(s) \in {"+", "-"} THEN Tail(s) ELSE s

\* int(s) does not raise ValueError
IntParses(s) ==
    LET d == Unsigned(Trim(s))
    IN d # <<>> /\ \A i \in 1..Len(d) : IsDigit(d[i])

RECURSIVE DigitsVal(_)
DigitsVal(d) ==
    IF d = <<>> THEN 0 ELSE 10 * DigitsVal(SubSeq(d, 1, Len(d) - 1)) + DigitVal(d[Len(d)])

\* int(s)
IntValue(s) ==
    LET t == Trim(s)
    IN IF t # <<>> /\ Head(t) = "-" THEN 0 - DigitsVal(Unsigned(t))
       ELSE DigitsVal(Unsigned(t))

\* the body of a response: not JSON, or a JSON object with some keys
NoJson == [valid |-> FALSE, keys |-> {}, full_url |-> NoneVal]
JsonEmpty == [valid |-> TRUE, keys |-> {}, full_url |-> NoneVal]
JsonNoUrl == [valid |-> TRUE, keys |-> {"id"}, full_url |-> NoneVal]
JsonUrl(v) == [valid |-> TRUE, keys |-> {"id", "full_url"}, full_url |-> v]

ShortUrl == <<"h",":","/","/","u">>

\* requests.post raises, or answers with a status code and a body
RespError == [kind |-> "error", code |-> 0, json |-> NoJson]
Resp(code, json) == [kind |-> "status", code |-> code, json |-> json]
Responses ==
    {RespError, Resp(500, NoJson), Resp(200, NoJson), Resp(200, JsonEmpty),
     Resp(200, JsonNoUrl), Resp(200, JsonUrl(NoneVal)), Resp(200, JsonUrl(Str(<<>>))),
     Resp(200, JsonUrl(Str(ShortUrl)))}

\* the parameters of create_linkly_oneshot_link, all required
LinklyParams == {"email", "api_key", "workspace_id", "url", "name", "utm_source"}

Raised(sent) == [raised |-> TRUE, isnone |-> FALSE, value |-> NoJson, posts |-> sent]
Returned(v, sent) == [raised |-> FALSE, isnone |-> FALSE, value |-> v, posts |-> sent]
ReturnedNone(sent) == [raised |-> FALSE, isnone |-> TRUE, value |-> NoJson, posts |-> sent]

\* create_linkly_oneshot_link called with the keyword arguments kwargs while the
\* backend answers b: a call that does not bind every parameter raises TypeError
\* before the body runs
create_linkly_oneshot_link(kwargs, b) ==
    IF DOMAIN kwargs # LinklyParams THEN Raised(<<>>)
    ELSE IF b.kind = "error" THEN Raised(<<kwargs>>)
    ELSE IF b.code = 200
         THEN IF b.json.valid THEN Returned(b.json, <<kwargs>>) ELSE Raised(<<kwargs>>)
         ELSE ReturnedNone(<<kwargs>>)

\* all([self.linkly_email, self.linkly_api_key, self.linkly_workspace_id])
AllCredentials(email, api_key, workspace_id) ==
    Truthy(email) /\ Truthy(api_key) /\ Truthy(workspace_id)

\* what a call of replace_links_with_linkly gives: the returned text, the requests
\* that were sent, whether an exception left the method
LinkResult(text, sent, raised) == [ret |-> text, posts |-> sent, raised |-> raised]

\* the keyword arguments of the call of create_linkly_oneshot_link
ReplaceKwargs(email, api_key, workspace_id) ==
    [email |-> email.s, api_key |-> api_key.s,
     workspace_id |-> IntValue(workspace_id.s), url |-> DestUrl]

\* variant: the try block has no except clause
try_mint_no_except(phishing_email, kwargs, b) ==
    LET r == create_linkly_oneshot_link(kwargs, b)
    IN IF r.raised THEN LinkResult(NoneVal, r.posts, TRUE)
       ELSE IF r.isnone \/ r.value.keys = {}
            THEN LinkResult(Str(phishing_email), r.posts, FALSE)
       ELSE IF "full_url" \notin r.value.keys
            THEN LinkResult(NoneVal, r.posts, TRUE)
       ELSE IF Truthy(r.value.full_url)
            THEN LinkResult(Str(StrReplace(phishing_email, Marker, r.value.full_url.s)),
                            r.posts, FALSE)
            ELSE LinkResult(Str(phishing_email), r.posts, FALSE)

\* the try block of replace_links_with_linkly: the call, the use of its answer, and
\* the except clause that turns every exception into "return the input"
try_mint(phishing_email, kwargs, b) ==
    LET r == create_linkly_oneshot_link(kwargs, b)
    IN IF r.raised THEN LinkResult(Str(phishing_email), r.posts, FALSE)
       ELSE IF r.isnone \/ r.value.keys = {}
            THEN LinkResult(Str(phishing_email), r.posts, FALSE)
       ELSE IF "full_url" \notin r.value.keys
            THEN LinkResult(Str(phishing_email), r.posts, FALSE)
       ELSE IF Truthy(r.value.full_url)
            THEN LinkResult(Str(StrReplace(phishing_email, Marker, r.value.full_url.s)),
                            r.posts, FALSE)
            ELSE LinkResult(Str(phishing_email), r.posts, FALSE)

\* variant: the ValueError of int() is not caught
mint_and_replace_value_error(phishing_email, email, api_key, workspace_id, b) ==
    IF ~AllCredentials(email, api_key, workspace_id)
    THEN LinkResult(Str(phishing_email), <<>>, FALSE)
    ELSE IF ~IntParses(workspace_id.s) THEN LinkResult(NoneVal, <<>>, TRUE)
    ELSE try_mint(phishing_email, ReplaceKwargs(email, api_key, workspace_id), b)

\* replace_links_with_linkly once the marker was found
mint_and_replace(phishing_email, email, api_key, workspace_id, b) ==
    IF ~AllCredentials(email, api_key, workspace_id)
    THEN LinkResult(Str(phishing_email), <<>>, FALSE)
    ELSE IF ~IntParses(workspace_id.s) THEN LinkResult(Str(phishing_email), <<>>, FALSE)
    ELSE try_mint(phishing_email, ReplaceKwargs(email, api_key, workspace_id), b)

\* variant: the early exit for a text without marker returns nothing
replace_links_bare_return(phishing_email, email, api_key, workspace_id, b) ==
    IF ~Contains(phishing_email, Marker) THEN LinkResult(NoneVal, <<>>, FALSE)
    ELSE mint_and_replace(phishing_email, email, api_key, workspace_id, b)

\* replace_links_with_linkly
replace_links_with_linkly(phishing_email, email, api_key, workspace_id, b) ==
    IF ~Contains(phishing_email, Marker)
    THEN LinkResult(Str(phishing_email), <<>>, FALSE)
    ELSE mint_and_replace(phishing_email, email, api_key, workspace_id, b)

\* the generated texts: up to MaxPieces pieces, each the marker, a part of it or filler
TextPieces == {Marker, <<"x">>, <<"L","I","N","K">>, <<"_","H","E","R","E">>}

RECURSIVE TextsOfLen(_)
TextsOfLen(n) ==
    IF n = 0 THEN {<<>>}
    ELSE {t \o q : t \in TextsOfLen(n - 1), q \in TextPieces}

Texts == UNION {TextsOfLen(n) : n \in 0..MaxPieces}

\* the call of replace_links_with_linkly of one run (main calls it once, with a
\* non-empty text)
ReplaceLinks ==
    /\ op = "init"
    /\ \E text \in Texts \ {<<>>} :
        LET r == replace_links_with_linkly(text, linkly_email, linkly_api_key,
                                           linkly_workspace_id, backend)
        IN /\ op' = "replace_links_with_linkly"
           /\ arg' = text
           /\ ret' = r.ret
           /\ exc' = r.raised
           /\ posts' = r.posts
    /\ UNCHANGED <<linkly_email, linkly_api_key, linkly_workspace_id, backend>>
    /\ UNCHANGED <<loadVars, jiraVars, genVars, mainVars>>

\* linkly.py run as a script with the same environment variables
LinklyMain ==
    /\ op = "init"
    /\ op' = "linkly_main"
    /\ arg' = <<>>
    /\ ret' = NoneVal
    /\ IF ~AllCredentials(linkly_email, linkly_api_key, linkly_workspace_id)
       THEN posts' = <<>> /\ exc' = FALSE
       ELSE IF ~IntParses(linkly_workspace_id.s)
            THEN posts' = <<>> /\ exc' = TRUE
            ELSE LET r == create_linkly_oneshot_link(
                            [email |-> linkly_email.s, api_key |-> linkly_api_key.s,
                             workspace_id |-> IntValue(linkly_workspace_id.s),
                             url |-> DestUrl, name |-> "My New Tracking Link",
                             utm_source |-> "newsletter"], backend)
                 IN posts' = r.posts /\ exc' = r.raised
    /\ UNCHANGED <<linkly_email, linkly_api_key, linkly_workspace_id, backend>>
    /\ UNCHANGED <<loadVars, jiraVars, genVars, mainVars>>

EmailValues == {NoneVal, Str(<<>>), Str(<<"e">>)}
ApiKeyValues == {NoneVal, Str(<<"k">>)}
WorkspaceIdValues ==
    {NoneVal, Str(<<>>), Str(<<"4","2">>), Str(<<" ","4","2">>), Str(<<"4","x">>)}

\* PhishingEmailGenerator.__init__ with some environment and some minting backend
InitLinks ==
    /\ InitLoadVars /\ InitJiraVars /\ InitCallVars /\ InitPipeVars
    /\ linkly_email \in EmailValues
    /\ linkly_api_key \in ApiKeyValues
    /\ linkly_workspace_id \in WorkspaceIdValues
    /\ backend \in Responses
    /\ posts = <<>>

NextLinks ==
    \/ ReplaceLinks
    \/ LinklyMain

SpecLinks == InitLinks /\ [][NextLinks]_vars

\* -------------------------------------------- properties of the substitution
CredentialsUsable ==
    /\ AllCredentials(linkly_email, linkly_api_key, linkly_workspace_id)
    /\ IntParses(linkly_workspace_id.s)

BackendSucceeds ==
    /\ backend.kind = "status" /\ backend.code = 200 /\ backend.json.valid
    /\ "full_url" \in backend.json.keys
    /\ Truthy(backend.json.full_url)

\* C1: a text with k >= 1 markers, usable credentials and a backend that succeeds
\* with URL U: the returned text has no marker and k occurrences of U, everything
\* else unchanged.
C1_UniformReplacement ==
    (/\ op = "replace_links_with_linkly"
     /\ CountOcc(arg, Marker) >= 1
     /\ CredentialsUsable
     /\ BackendSucceeds)
    => /\ ~ret.none
       /\ CountOcc(ret.s, Marker) = 0
       /\ CountOcc(ret.s, backend.json.full_url.s) = CountOcc(arg, Marker)
       /\ ret.s = StrReplace(arg, Marker, backend.json.full_url.s)

\* C2: a text with a marker and usable credentials: the call sends exactly one
\* link-creation request, for the fixed destination URL.
C2_ExactlyOneRequest ==
    (/\ op = "replace_links_with_linkly"
     /\ Contains(arg, Marker)
     /\ CredentialsUsable)
    => Len(posts) = 1 /\ posts[1].url = DestUrl

\* C10: a text without marker is returned as it is, whatever the credentials, and
\* nothing is raised.
C10_AbsentMarkerIdentity ==
    (op = "replace_links_with_linkly" /\ ~Contains(arg, Marker))
        => ~exc /\ ret = Str(arg)

\* a text without marker (but with parts of it) went through the call with usable
\* credentials and a backend that would succeed
C10_Witness ==
    /\ op = "replace_links_with_linkly"
    /\ ~Contains(arg, Marker)
    /\ Contains(arg, <<"L","I","N","K">>)
    /\ CredentialsUsable
    /\ BackendSucceeds

\* C11: when one of the three credentials is missing or the workspace id is not an
\* integer, the input text is returned as it is and no request is sent.
C11_UnusableCredentialsSkip ==
    (op = "replace_links_with_linkly" /\ ~CredentialsUsable)
        => ~exc /\ ret = Str(arg) /\ posts = <<>>

\* a text with markers met credentials that are all set, with a workspace id that
\* is not an integer
C11_Witness ==
    /\ op = "replace_links_with_linkly"
    /\ Contains(arg, Marker)
    /\ AllCredentials(linkly_email, linkly_api_key, linkly_workspace_id)
    /\ ~IntParses(linkly_workspace_id.s)

\* the minting call of the method, as it is made, fails or brings no usable URL
MintingFails ==
    LET r == create_linkly_oneshot_link(
                ReplaceKwargs(linkly_email, linkly_api_key, linkly_workspace_id), backend)
    IN \/ r.raised
       \/ r.isnone
       \/ "full_url" \notin r.value.keys
       \/ ~Truthy(r.value.full_url)

\* C12: when the minting call fails or its answer has no usable URL, the input text
\* is returned as it is and nothing is raised.
C12_MintFailureIdentity ==
    (/\ op = "replace_links_with_linkly"
     /\ Contains(arg, Marker)
     /\ CredentialsUsable
     /\ MintingFails)
    => ~exc /\ ret = Str(arg)

\* the minting call was reached with a text that has two markers, and failed
C12_Witness ==
    /\ op = "replace_links_with_linkly"
    /\ CountOcc(arg, Marker) >= 2
    /\ CredentialsUsable
    /\ MintingFails


\* --------------------------------------------------------------- jiralib.py
MaxIssues == 6
DescExtra == 50

DescLimit == 200
MaxShown == 5

Ellipsis == <<".", ".", ".">>
NoneWord == <<"N","o","n","e">>
UnassignedWord == <<"U","n","a","s","s","i","g","n","e","d">>

\* a description of n characters (the decimal digits in turn)
DescText(n) == [i \in 1..n |-> Digits[(i % 10) + 1]]

\* variant: the cut is also applied to a description of exactly DescLimit characters
NormalizeDescriptionFromLimit(description) ==
    IF Truthy(description) /\ Len(description.s) >= DescLimit
    THEN Str(SubSeq(description.s, 1, DescLimit) \o Ellipsis)
    ELSE description

\* the 'description' entry of extract_issue_details
NormalizeDescription(description) ==
    IF Truthy(description) /\ Len(description.s) > DescLimit
    THEN Str(SubSeq(description.s, 1, DescLimit) \o Ellipsis)
    ELSE description

\* variant: the absent field is passed on as it is
NameOrAbsent(field, default) == field

\* the list if it is there and not empty, else []
ListOr(field) == IF Truthy(field) THEN field.s ELSE <<>>

\* x.name if x else default
NameOr(field, default) == IF field.none THEN Str(default) ELSE field

\* the customfield_* attributes with a truthy value
TruthyCustomFields(custom) == {c \in custom : c.truthy}

\* extract_issue_details(issue); reading .name of an absent status raises
extract_issue_details(issue) ==
    IF issue.status.none THEN [raised |-> TRUE, data |-> <<>>]
    ELSE [raised |-> FALSE,
          data |->
            [key |-> issue.key,
             summary |-> issue.summary,
             status |-> issue.status,
             priority |-> NameOr(issue.priority, NoneWord),
             issue_type |-> issue.issuetype,
             reporter |-> NameOr(issue.reporter, NoneWord),
             assignee |-> NameOr(issue.assignee, UnassignedWord),
             created |-> issue.created,
             updated |-> issue.updated,
             due_date |-> IF Truthy(issue.duedate) THEN issue.duedate ELSE NoneVal,
             project_name |-> issue.project_name,
             project_key |-> issue.project_key,
             description |-> NormalizeDescription(issue.description),
             comments_count |-> IF issue.has_comment THEN issue.comment_total ELSE 0,
             labels |-> ListOr(issue.labels),
             components |-> ListOr(issue.components),
             resolution |-> issue.resolution,
             resolution_description |->
                IF issue.resolution.none THEN NoneVal ELSE issue.resolution_description,
             custom_fields |-> TruthyCustomFields(issue.custom)]]

\* the raw records the model draws from
Descriptions ==
    {NoneVal} \cup
    {Str(DescText(n)) :
        n \in {0, 1, DescLimit - 1, DescLimit, DescLimit + 1, DescLimit + DescExtra}}

Opt(s) == {NoneVal, Str(s)}

RawIssues ==
    [key : {<<"K","1">>}, summary : {<<"s">>}, status : Opt(<<"O","p","e","n">>),
     priority : Opt(<<"H","i","g","h">>), issuetype : {Str(<<"B","u","g">>)},
     reporter : Opt(<<"r","e","p">>), assignee : Opt(<<"a","s","g">>),
     created : {<<"c">>}, updated : {<<"u">>}, duedate : Opt(<<"d","u","e">>),
     project_name : {<<"P">>}, project_key : {<<"P","K">>},
     description : Descriptions,
     has_comment : BOOLEAN, comment_total : {2},
     labels : {NoneVal, Str(<<>>), Str(<< <<"l","1">>, <<"l","2">> >>)},
     components : {NoneVal, Str(<<>>), Str(<< <<"c","1">> >>)},
     resolution : Opt(<<"D","o","n","e">>), resolution_description : {Str(<<"r","d">>)},
     custom : {{}, {[name |-> "customfield_1", truthy |-> TRUE]},
               {[name |-> "customfield_1", truthy |-> FALSE]}}]

\* one call of extract_issue_details
ExtractIssueDetails ==
    /\ op = "init"
    /\ \E issue \in RawIssues :
        /\ op' = "extract_issue_details"
        /\ arg' = issue
        /\ ret' = extract_issue_details(issue).data
        /\ exc' = extract_issue_details(issue).raised
    /\ UNCHANGED <<loadVars, linkVars, jiraVars, genVars, mainVars>>

InitNormalize ==
    InitLoadVars /\ InitLinkVars /\ InitJiraVars /\ InitCallVars /\ InitPipeVars

NextNormalize == ExtractIssueDetails

SpecNormalize == InitNormalize /\ [][NextNormalize]_vars

\* C9: a description of more than 200 characters becomes its first 200 characters
\* followed by "..."; a description of at most 200 characters is left unchanged.
C9_DescriptionTruncation ==
    (op = "extract_issue_details" /\ ~exc /\ ~arg.description.none) =>
        IF Len(arg.description.s) > DescLimit
        THEN ret.description = Str(SubSeq(arg.description.s, 1, DescLimit) \o Ellipsis)
        ELSE ret.description = arg.description

\* a description longer than the limit was cut
C9_Witness ==
    /\ op = "extract_issue_details"
    /\ ~exc
    /\ ~arg.description.none
    /\ Len(arg.description.s) > DescLimit
    /\ Len(ret.description.s) = DescLimit + Len(Ellipsis)

\* C20 as stated: no optional field that is absent in the raw record is carried as
\* an absent (null) value into the summary.
C20_NoNullPropagated ==
    (op = "extract_issue_details" /\ ~exc) =>
        /\ ~ret.priority.none
        /\ ~ret.assignee.none
        /\ ~ret.reporter.none
        /\ ~ret.resolution.none
        /\ ~ret.due_date.none
        /\ (arg.labels.none => ret.labels = <<>>)
        /\ (arg.components.none => ret.components = <<>>)
        /\ (arg.custom = {} => ret.custom_fields = {})

\* C20 amended: an absent priority or reporter becomes "None", an absent assignee
\* "Unassigned", absent labels, components and custom fields an empty collection;
\* an absent resolution (with its description) and an absent due date are carried
\* as null.
C20_SentinelsAndNulls ==
    (op = "extract_issue_details" /\ ~exc) =>
        /\ (arg.priority.none => ret.priority = Str(NoneWord))
        /\ (arg.reporter.none => ret.reporter = Str(NoneWord))
        /\ (arg.assignee.none => ret.assignee = Str(UnassignedWord))
        /\ (arg.labels.none => ret.labels = <<>>)
        /\ (arg.components.none => ret.components = <<>>)
        /\ (arg.custom = {} => ret.custom_fields = {})
        /\ (arg.resolution.none =>
                ret.resolution = NoneVal /\ ret.resolution_description = NoneVal)
        /\ (arg.duedate.none => ret.due_date = NoneVal)

\* a record without any of the optional fields was normalized
C20_Witness ==
    /\ op = "extract_issue_details"
    /\ ~exc
    /\ arg.priority.none /\ arg.reporter.none /\ arg.assignee.none
    /\ arg.labels.none /\ arg.components.none /\ arg.custom = {}
    /\ arg.resolution.none /\ arg.duedate.none

\* ------------------------------------- fetch_jira_tickets and the ticket block
\* the raw records the record-tracking backend answers with
IssueOf(key, status, opt, description, labels, components) ==
    [key |-> key, summary |-> <<"s">>, status |-> status,
     priority |-> opt, issuetype |-> Str(<<"B","u","g">>),
     reporter |-> opt, assignee |-> opt,
     created |-> <<"c">>, updated |-> <<"u">>, duedate |-> opt,
     project_name |-> <<"P">>, project_key |-> <<"P","K">>,
     description |-> description,
     has_comment |-> TRUE, comment_total |-> 2,
     labels |-> Str(labels), components |-> Str(components),
     resolution |-> NoneVal, resolution_description |-> Str(<<"r","d">>),
     custom |-> {}]

OpenStatus == Str(<<"O","p","e","n">>)

FullIssue ==
    IssueOf(<<"K","1">>, OpenStatus, Str(<<"x">>), Str(DescText(DescLimit + 1)),
            << <<"l","1">>, <<"l","2">> >>, << <<"c","1">> >>)
BareIssue == IssueOf(<<"K","2">>, OpenStatus, NoneVal, NoneVal, <<>>, <<>>)
EmptyDescIssue ==
    IssueOf(<<"K","3">>, OpenStatus, Str(<<"y">>), Str(<<>>), << <<"l","1">> >>, <<>>)
BrokenIssue == IssueOf(<<"K","4">>, NoneVal, NoneVal, Str(<<"d">>), <<>>, <<>>)

FetchIssues == {FullIssue, BareIssue, EmptyDescIssue, BrokenIssue}

\* The backend cannot be reached, refuses the query, or answers with records.
JiraAnswer(kind, issues) == [kind |-> kind, issues |-> issues]

\* variant: a record that cannot be normalised is left out, the others are returned
get_active_jira_issues_by_email_partial(b) ==
    IF b.kind # "ok" THEN <<>>
    ELSE LET good == SelectSeq(b.issues, LAMBDA x : ~extract_issue_details(x).raised)
         IN [i \in 1..Len(good) |-> extract_issue_details(good[i]).data]

\* get_active_jira_issues_by_email: any exception gives the empty list
get_active_jira_issues_by_email(b) ==
    IF b.kind # "ok" THEN <<>>
    ELSE IF \E i \in 1..Len(b.issues) : extract_issue_details(b.issues[i]).raised
         THEN <<>>
         ELSE [i \in 1..Len(b.issues) |-> extract_issue_details(b.issues[i]).data]

\* fetch_jira_tickets: the list stored in self.jira_tickets after the backend answered b
fetch_jira_tickets_keep_old(old, b) ==
    IF old # <<>> THEN old ELSE get_active_jira_issues_by_email(b)

fetch_jira_tickets(old, b) == get_active_jira_issues_by_email(b)

\* one fetch_jira_tickets call answered by b
Fetch(b) ==
    /\ jira_backend' = b
    /\ jira_tickets' = fetch_jira_tickets(jira_tickets, b)
    /\ ret' = get_active_jira_issues_by_email(b)
    /\ op' = "fetch_jira_tickets"
    /\ arg' = <<>>
    /\ exc' = FALSE

\* the fetch_jira_tickets call of one run
FetchJiraTickets ==
    /\ op = "init"
    /\ \E b \in {JiraAnswer("conn_error", <<>>), JiraAnswer("query_error", <<>>)}
                \cup {JiraAnswer("ok", l) :
                        l \in UNION {[1..n -> FetchIssues] : n \in 0..MaxIssues}} :
        Fetch(b)
    /\ UNCHANGED <<loadVars, linkVars, genVars, mainVars>>

\* ', '.join(strings)
RECURSIVE JoinComma(_)
JoinComma(strings) ==
    IF strings = <<>> THEN <<>>
    ELSE IF Len(strings) = 1 THEN strings[1]
    ELSE strings[1] \o <<",", " ">> \o JoinComma(Tail(strings))

Line(kind, num, val) == [kind |-> kind, num |-> num, val |-> val]

\* the lines appended for ticket number i
TicketLines(i, ticket) ==
    << Line("ticket", i, ticket.key),
       Line("summary", i, ticket.summary),
       Line("status", i, ticket.status.s),
       Line("priority", i, ticket.priority.s),
       Line("issue_type", i, ticket.issue_type.s),
       Line("assignee", i, ticket.assignee.s),
       Line("reporter", i, ticket.reporter.s),
       Line("project", i, ticket.project_name \o <<" ", "(">> \o ticket.project_key
                            \o <<")">>),
       Line("created", i, ticket.created),
       Line("updated", i, ticket.updated) >>
    \o (IF Truthy(ticket.description)
        THEN <<Line("description", i, ticket.description.s)>> ELSE <<>>)
    \o (IF ticket.labels # <<>>
        THEN <<Line("labels", i, JoinComma(ticket.labels))>> ELSE <<>>)
    \o (IF ticket.components # <<>>
        THEN <<Line("components", i, JoinComma(ticket.components))>> ELSE <<>>)
    \o <<Line("sep", i, <<>>)>>

RECURSIVE AllTicketLines(_, _)
AllTicketLines(tickets, i) ==
    IF i > Len(tickets) THEN <<>>
    ELSE TicketLines(i, tickets[i]) \o AllTicketLines(tickets, i + 1)

\* variant: every ticket is rendered in detail
FirstShownAll(tickets) == tickets

\* self.jira_tickets[:5]
FirstShown(tickets) ==
    SubSeq(tickets, 1, IF Len(tickets) < MaxShown THEN Len(tickets) ELSE MaxShown)

\* create_jira_tickets_context: the lines of the block ("" is the empty sequence)
create_jira_tickets_context(tickets) ==
    IF tickets = <<>> THEN <<>>
    ELSE << Line("title", 0, <<>>), Line("total", Len(tickets), <<>>),
            Line("blank", 0, <<>>) >>
         \o AllTicketLines(FirstShown(tickets), 1)
         \o (IF Len(tickets) > MaxShown
             THEN <<Line("note", Len(tickets) - MaxShown, <<>>)>> ELSE <<>>)
         \o <<Line("end", 0, <<>>)>>

\* one call of create_jira_tickets_context
CreateJiraTicketsContext ==
    /\ op \in {"init", "fetch_jira_tickets"}
    /\ op' = "create_jira_tickets_context"
    /\ arg' = <<>>
    /\ ret' = create_jira_tickets_context(jira_tickets)
    /\ exc' = FALSE
    /\ UNCHANGED <<loadVars, linkVars, jiraVars, genVars, mainVars>>

InitJira == InitLoadVars /\ InitLinkVars /\ InitJiraVars /\ InitCallVars /\ InitPipeVars

NextJira ==
    \/ FetchJiraTickets
    \/ CreateJiraTicketsContext

SpecJira == InitJira /\ [][NextJira]_vars

\* the lines of one kind of a rendered block
LinesOf(block, kind) == SelectSeq(block, LAMBDA l : l.kind = kind)

\* C8: for N stored tickets the block has exactly min(N, 5) detailed entries, the
\* first ones in order; a note naming N - 5 further tickets exactly when N > 5; and
\* nothing at all (the empty string) when N = 0.
C8_TicketCap ==
    op = "create_jira_tickets_context" =>
        LET N == Len(jira_tickets)
            entries == LinesOf(ret, "ticket")
            notes == LinesOf(ret, "note")
        IN IF N = 0 THEN ret = <<>>
           ELSE /\ Len(entries) = (IF N < 5 THEN N ELSE 5)
                /\ Len(LinesOf(ret, "sep")) = Len(entries)
                /\ \A i \in DOMAIN entries :
                    entries[i].num = i /\ entries[i].val = jira_tickets[i].key
                /\ IF N > 5 THEN Len(notes) = 1 /\ notes[1].num = N - 5
                   ELSE notes = <<>>

\* more than five tickets were stored and rendered, the sixth differing from the fifth
C8_Witness ==
    /\ op = "create_jira_tickets_context"
    /\ Len(jira_tickets) > 5
    /\ jira_tickets[6].key # jira_tickets[5].key
    /\ LinesOf(ret, "note") # <<>>

\* ------------------------------------------------- generate_phishing_email

\* variant: an early return also empties the cached context
load_prompts_context_clears(d, old_context) ==
    IF NoSources(d) THEN [ret |-> <<>>, context |-> <<>>]
    ELSE LET block == <<BannerPart>> \o Sections(SortFiles(Glob(d.entries)), 0)
                          \o <<EndBannerPart>>
         IN [ret |-> block, context |-> block]

\* load_prompts_context run from its first line to its return: the block returned
\* and the value of self.context afterwards
load_prompts_context(d, old_context) ==
    IF NoSources(d) THEN [ret |-> <<>>, context |-> old_context]
    ELSE LET block == <<BannerPart>> \o Sections(SortFiles(Glob(d.entries)), 0)
                          \o <<EndBannerPart>>
         IN [ret |-> block, context |-> block]

\* one piece of the prompt text
Seg(kind, val) == [kind |-> kind, val |-> val]

\* base_prompt: the instruction and the clauses appended to it
base_prompt_always_target(target_email, impersonate) ==
    <<Seg("instruction", <<>>)>>
        \o (IF impersonate # <<>> THEN <<Seg("impersonate", impersonate)>> ELSE <<>>)
        \o <<Seg("target", target_email)>>

base_prompt(target_email, impersonate) ==
    <<Seg("instruction", <<>>)>>
        \o (IF impersonate # <<>> THEN <<Seg("impersonate", impersonate)>> ELSE <<>>)
        \o (IF target_email # <<>> THEN <<Seg("target", target_email)>> ELSE <<>>)

\* full_prompt: documents block, newline, ticket block, blank line, lead-in, base_prompt
full_prompt(prompts_context, jira_context, base) ==
    << Seg("documents", prompts_context), Seg("newline", <<>>),
       Seg("tickets", jira_context), Seg("newline", <<>>), Seg("newline", <<>>),
       Seg("lead", <<>>) >> \o base

\* What the text-generation backend does with a request: it raises (credentials,
\* network, quota), answers without choices, or answers with a message content.
GenError == [kind |-> "error", content |-> NoneVal]
GenMalformed == [kind |-> "malformed", content |-> NoneVal]
GenOk(content) == [kind |-> "ok", content |-> content]

\* the try block of generate_phishing_email: the content, or None on any exception
completion(resp) == IF resp.kind = "ok" THEN resp.content ELSE NoneVal

\* variant: the documents are loaded at every call
generate_phishing_email_always_loads(ctx, tickets, d, target_email, impersonate, resp) ==
    LET loaded == load_prompts_context(d, ctx)
    IN [context |-> loaded.context,
        reloaded |-> TRUE,
        prompt |-> full_prompt(loaded.ret, create_jira_tickets_context(tickets),
                               base_prompt(target_email, impersonate)),
        ret |-> completion(resp)]

\* generate_phishing_email: self.context afterwards, the prompt sent, the value returned
generate_phishing_email(ctx, tickets, d, target_email, impersonate, resp) ==
    LET loaded == IF ctx # <<>> THEN [ret |-> ctx, context |-> ctx]
                  ELSE load_prompts_context(d, ctx)
    IN [context |-> loaded.context,
        reloaded |-> (ctx = <<>>),
        prompt |-> full_prompt(loaded.ret, create_jira_tickets_context(tickets),
                               base_prompt(target_email, impersonate)),
        ret |-> completion(resp)]

\* one load_prompts_context call, from its first line to its return
Load(dir) ==
    LET r == load_prompts_context(fs[dir], context)
    IN /\ prompts_dir' = dir
       /\ context' = r.context
       /\ load_ret' = r.ret
       /\ op' = "load_prompts_context"
       /\ arg' = <<>>
       /\ ret' = <<>>
       /\ exc' = FALSE
       /\ UNCHANGED <<fs, pc, sorted_files, idx, total_chars, context_parts, log>>

\* variant: an empty cache is filled from the directory of the last load
GenerateFromChosenDir(target_email, impersonate, resp) ==
    LET r == generate_phishing_email(context, jira_tickets, fs[prompts_dir],
                                     target_email, impersonate, resp)
    IN /\ context' = r.context
       /\ prompts_dir' = prompts_dir
       /\ load_ret' = (IF r.reloaded THEN r.prompt[1].val ELSE load_ret)
       /\ prev_prompt' = prompt
       /\ prompt' = r.prompt
       /\ gen_backend' = resp
       /\ op' = "generate_phishing_email"
       /\ arg' = [target_email |-> target_email, impersonate |-> impersonate,
                  cached |-> ~r.reloaded]
       /\ ret' = r.ret
       /\ exc' = FALSE
       /\ UNCHANGED <<fs, pc, sorted_files, idx, total_chars, context_parts, log>>
       /\ UNCHANGED openai_key

\* one generate_phishing_email call answered by resp
Generate(target_email, impersonate, resp) ==
    LET r == generate_phishing_email(context, jira_tickets, fs[DefaultDir],
                                     target_email, impersonate, resp)
    IN /\ context' = r.context
       /\ prompts_dir' = (IF r.reloaded THEN DefaultDir ELSE prompts_dir)
       /\ load_ret' = (IF r.reloaded THEN r.prompt[1].val ELSE load_ret)
       /\ prev_prompt' = prompt
       /\ prompt' = r.prompt
       /\ gen_backend' = resp
       /\ op' = "generate_phishing_email"
       /\ arg' = [target_email |-> target_email, impersonate |-> impersonate,
                  cached |-> ~r.reloaded]
       /\ ret' = r.ret
       /\ exc' = FALSE
       /\ UNCHANGED <<fs, pc, sorted_files, idx, total_chars, context_parts, log>>
       /\ UNCHANGED openai_key

\* the inputs of the calls on one generator
NotesFile == [name |-> NameNotes, readable |-> TRUE, ws |-> 0, body |-> SmallLen]
OrgFile == [name |-> NameContextOrg, readable |-> TRUE, ws |-> 0, body |-> MidLen]
TargetValues == {<<>>, <<"t","@","m">>}
ImpersonateValues == {<<>>, <<"C","E","O">>}
GenJiraAnswers ==
    {JiraAnswer("conn_error", <<>>), JiraAnswer("ok", <<BareIssue>>),
     JiraAnswer("ok", <<FullIssue, EmptyDescIssue>>)}
GenResponses == {GenError, GenOk(Str(<<"h","i">>))}

GenFetch ==
    /\ \E b \in GenJiraAnswers : Fetch(b)
    /\ UNCHANGED <<loadVars, linkVars, genVars, mainVars>>

GenLoad ==
    /\ \E d \in DirPaths : Load(d)
    /\ UNCHANGED <<linkVars, jiraVars, genVars, mainVars>>

GenGenerate ==
    /\ \E t \in TargetValues, i \in ImpersonateValues, resp \in GenResponses :
            Generate(t, i, resp)
    /\ UNCHANGED <<linkVars, jiraVars, mainVars>>

InitGen ==
    /\ fs \in [DirPaths -> {NoDir, Dir(<<NotesFile, OrgFile>>)}]
    /\ prompts_dir = DefaultDir
    /\ pc = "idle"
    /\ sorted_files = <<>>
    /\ idx = 1
    /\ total_chars = 0
    /\ context_parts = <<>>
    /\ log = <<>>
    /\ context = <<>>
    /\ load_ret = <<>>
    /\ InitLinkVars /\ InitJiraVars /\ InitCallVars /\ InitPipeVars

NextGen ==
    \/ GenFetch
    \/ GenLoad
    \/ GenGenerate

SpecGen == InitGen /\ [][NextGen]_vars

\* the kinds of the segments of a prompt, in order
Kinds(p) == [i \in 1..Len(p) |-> p[i].kind]

\* the value of the only segment of one kind
SegVal(p, kind) == SelectSeq(p, LAMBDA g : g.kind = kind)[1].val

\* C15: a prompt is the documents block, then the ticket block, then the instruction,
\* both blocks in full; the instruction has the impersonation clause exactly when an
\* impersonated sender was supplied and the target clause exactly when a target
\* address was supplied.
C15_PromptAssembly ==
    op = "generate_phishing_email" =>
        /\ Kinds(prompt) =
                <<"documents", "newline", "tickets", "newline", "newline", "lead",
                  "instruction">>
                \o (IF arg.impersonate # <<>> THEN <<"impersonate">> ELSE <<>>)
                \o (IF arg.target_email # <<>> THEN <<"target">> ELSE <<>>)
        /\ SegVal(prompt, "documents") = context
        /\ (context # <<>> =>
                /\ Head(context) = BannerPart
                /\ context[Len(context)] = EndBannerPart)
        /\ SegVal(prompt, "tickets") = create_jira_tickets_context(jira_tickets)
        /\ (arg.impersonate # <<>> => SegVal(prompt, "impersonate") = arg.impersonate)
        /\ (arg.target_email # <<>> => SegVal(prompt, "target") = arg.target_email)

\* a call with an impersonated sender and no target, with documents and tickets present
C15_Witness ==
    /\ op = "generate_phishing_email"
    /\ arg.impersonate # <<>>
    /\ arg.target_email = <<>>
    /\ SegVal(prompt, "documents") # <<>>
    /\ SegVal(prompt, "tickets") # <<>>

\* C16: the ticket block of every prompt is rendered from the list stored by the
\* most recent fetch_jira_tickets call (the empty list before the first fetch),
\* also when the documents block comes from the cache.
C16_TicketsAlwaysFresh ==
    op = "generate_phishing_email" =>
        SegVal(prompt, "tickets") =
            (IF jira_backend.kind = "none" THEN <<>>
             ELSE create_jira_tickets_context(
                      get_active_jira_issues_by_email(jira_backend)))

\* a second prompt with the cached documents block of the first and other tickets
C16_Witness ==
    /\ op = "generate_phishing_email"
    /\ arg.cached
    /\ prev_prompt # <<>>
    /\ SegVal(prev_prompt, "documents") = SegVal(prompt, "documents")
    /\ SegVal(prev_prompt, "tickets") # <<>>
    /\ SegVal(prompt, "tickets") # <<>>
    /\ SegVal(prev_prompt, "tickets") # SegVal(prompt, "tickets")

\* ------------------------------------------------- main

DefaultTarget == <<"c",".","z","h","a","o","@","m","e","t","h","o","d",".","m","e">>

\* target_email = input(...).strip(), or the default
TargetOrDefault(typed) == IF typed = <<>> THEN DefaultTarget ELSE typed

\* prompts_folder = input(...).strip(), or "./prompts"
FolderOrDefault(typed) == IF typed = "" THEN DefaultDir ELSE typed

\* variant: main goes on whatever generate_phishing_email returned
proceeds_always(email) == TRUE

\* main: if phishing_email:
proceeds(email) == Truthy(email)

\* setup_openai_client raises ValueError when OPENAI_API_KEY is unset or empty
setup_openai_client_raises(key) == ~Truthy(key)

\* replace_links_with_linkly reaches its call of create_linkly_oneshot_link
MintAttempted(text, email, api_key, workspace_id) ==
    /\ Contains(text, Marker)
    /\ AllCredentials(email, api_key, workspace_id)
    /\ IntParses(workspace_id.s)

\* the environments and answers of the runs of main
OpenAiKeys == {NoneVal, Str(<<>>), Str(<<"s","k">>)}
MainLinklyIds == {NoneVal, Str(<<"4","2">>), Str(<<"4","x">>)}
MainJiraAnswers ==
    {JiraAnswer("config_error", <<>>), JiraAnswer("conn_error", <<>>),
     JiraAnswer("ok", <<>>), JiraAnswer("ok", <<FullIssue, BareIssue>>)}
MainGenResponses ==
    {GenError, GenMalformed, GenOk(NoneVal), GenOk(Str(<<>>)),
     GenOk(Str(<<"h","i">>)), GenOk(Str(<<"g","o"," ">> \o Marker))}
MainLinkAnswers == {RespError, Resp(500, NoJson), Resp(200, JsonUrl(Str(ShortUrl)))}
TypedFolders == {"", OtherDir}

\* the process starts: the environment is what it is, nothing has run
InitMain ==
    /\ fs \in [DirPaths -> {NoDir, Dir(<<NotesFile>>)}]
    /\ prompts_dir = DefaultDir
    /\ pc = "idle"
    /\ sorted_files = <<>>
    /\ idx = 1
    /\ total_chars = 0
    /\ context_parts = <<>>
    /\ log = <<>>
    /\ context = <<>>
    /\ load_ret = <<>>
    /\ linkly_email = Str(<<"e">>)
    /\ linkly_api_key = Str(<<"k">>)
    /\ linkly_workspace_id \in MainLinklyIds
    /\ backend = RespError
    /\ posts = <<>>
    /\ InitJiraVars /\ InitCallVars
    /\ openai_key \in OpenAiKeys
    /\ prompt = <<>>
    /\ prev_prompt = <<>>
    /\ gen_backend = [kind |-> "none", content |-> NoneVal]
    /\ mpc = "construct"
    /\ trace = <<>>
    /\ inputs = [target_email |-> <<>>, impersonate |-> <<>>, prompts_folder |-> DefaultDir]
    /\ main_email = NoneVal
    /\ saved = <<>>
    /\ shown = <<>>

\* generator = PhishingEmailGenerator()
MainConstruct ==
    /\ mpc = "construct"
    /\ op' = "__init__"
    /\ IF setup_openai_client_raises(openai_key)
       THEN mpc' = "crashed" /\ exc' = TRUE
       ELSE mpc' = "inputs" /\ exc' = FALSE
    /\ UNCHANGED <<arg, ret, trace, inputs, main_email, saved, shown>>
    /\ UNCHANGED <<loadVars, linkVars, jiraVars, genVars>>

\* the three input() calls
MainInputs ==
    /\ mpc = "inputs"
    /\ \E t \in TargetValues, i \in ImpersonateValues, f \in TypedFolders :
        inputs' = [target_email |-> TargetOrDefault(t), impersonate |-> i,
                   prompts_folder |-> FolderOrDefault(f)]
    /\ mpc' = "fetch"
    /\ UNCHANGED <<trace, main_email, saved, shown>>
    /\ UNCHANGED <<loadVars, linkVars, jiraVars, genVars, callVars>>

\* STEP 1
MainFetch ==
    /\ mpc = "fetch"
    /\ \E b \in MainJiraAnswers : Fetch(b)
    /\ trace' = Append(trace, "fetch")
    /\ mpc' = "load"
    /\ UNCHANGED <<inputs, main_email, saved, shown>>
    /\ UNCHANGED <<loadVars, linkVars, genVars>>

\* STEP 2
MainLoad ==
    /\ mpc = "load"
    /\ Load(inputs.prompts_folder)
    /\ trace' = Append(trace, "load")
    /\ mpc' = "generate"
    /\ UNCHANGED <<inputs, main_email, saved, shown>>
    /\ UNCHANGED <<linkVars, jiraVars, genVars>>

\* STEP 3 and the test of its result
MainGenerate ==
    /\ mpc = "generate"
    /\ \E resp \in MainGenResponses :
        /\ Generate(inputs.target_email, inputs.impersonate, resp)
        /\ LET r == generate_phishing_email(context, jira_tickets, fs[DefaultDir],
                                            inputs.target_email, inputs.impersonate, resp)
           IN /\ trace' = trace \o (IF r.reloaded THEN <<"load">> ELSE <<>>)
                                \o <<"assemble", "generation_call">>
              /\ main_email' = r.ret
              /\ mpc' = (IF proceeds(r.ret) THEN "replace" ELSE "done")
    /\ UNCHANGED <<inputs, saved, shown>>
    /\ UNCHANGED <<linkVars, jiraVars>>

\* STEP 3.5
MainReplace ==
    /\ mpc = "replace"
    /\ \E b \in MainLinkAnswers :
        LET r == replace_links_with_linkly(main_email.s, linkly_email, linkly_api_key,
                                           linkly_workspace_id, b)
        IN /\ backend' = b
           /\ posts' = r.posts
           /\ op' = "replace_links_with_linkly"
           /\ arg' = main_email.s
           /\ ret' = r.ret
           /\ exc' = r.raised
           /\ main_email' = (IF r.raised THEN main_email ELSE r.ret)
           /\ mpc' = (IF r.raised THEN "crashed" ELSE "save")
    /\ trace' = trace
                 \o (IF MintAttempted(main_email.s, linkly_email, linkly_api_key,
                                      linkly_workspace_id)
                     THEN <<"mint">> ELSE <<>>)
                 \o <<"substitute">>
    /\ UNCHANGED <<linkly_email, linkly_api_key, linkly_workspace_id>>
    /\ UNCHANGED <<inputs, saved, shown>>
    /\ UNCHANGED <<loadVars, jiraVars, genVars>>

\* STEP 4: save_results; a failure to write is printed and swallowed
MainSave ==
    /\ mpc = "save"
    /\ \E written \in BOOLEAN :
        saved' = (IF written
                  THEN <<[email |-> main_email, target_email |-> inputs.target_email,
                          tickets |-> jira_tickets]>>
                  ELSE <<>>)
    /\ op' = "save_results"
    /\ arg' = <<>>
    /\ ret' = <<>>
    /\ exc' = FALSE
    /\ trace' = Append(trace, "save")
    /\ mpc' = "display"
    /\ UNCHANGED <<inputs, main_email, shown>>
    /\ UNCHANGED <<loadVars, linkVars, jiraVars, genVars>>

\* STEP 5: show_email_gui; without a display tk.Tk() raises and nothing catches it
MainDisplay ==
    /\ mpc = "display"
    /\ \E opened \in BOOLEAN :
        IF opened THEN shown' = <<main_email>> /\ exc' = FALSE /\ mpc' = "done"
        ELSE shown' = <<>> /\ exc' = TRUE /\ mpc' = "crashed"
    /\ op' = "show_email_gui"
    /\ arg' = <<>>
    /\ ret' = <<>>
    /\ trace' = Append(trace, "display")
    /\ UNCHANGED <<inputs, main_email, saved>>
    /\ UNCHANGED <<loadVars, linkVars, jiraVars, genVars>>

NextMain ==
    \/ MainConstruct
    \/ MainInputs
    \/ MainFetch
    \/ MainLoad
    \/ MainGenerate
    \/ MainReplace
    \/ MainSave
    \/ MainDisplay

SpecMain == InitMain /\ [][NextMain]_vars

\* how often a stage occurs in the trace, and whether it does
Times(stage) == Len(SelectSeq(trace, LAMBDA e : e = stage))
Happened(stage) == Times(stage) > 0

\* the generation call of this run was made and failed
GenerationFailed == Happened("generation_call") /\ gen_backend.kind # "ok"

\* C13: when the generation call fails, generate_phishing_email returns no text and
\* main halts: no substitution, no minting request, no save, no display, and no
\* exception leaves main.
C13_GenerationFailureHalts ==
    GenerationFailed =>
        /\ op = "generate_phishing_email"
        /\ ret = NoneVal
        /\ main_email = NoneVal
        /\ mpc = "done"
        /\ exc = FALSE
        /\ ~Happened("substitute") /\ ~Happened("mint")
        /\ ~Happened("save") /\ ~Happened("display")
        /\ posts = <<>> /\ saved = <<>> /\ shown = <<>>
        /\ ~ENABLED NextMain

\* the backend answered without choices after tickets and documents were loaded
C13_Witness ==
    /\ GenerationFailed
    /\ gen_backend = GenMalformed
    /\ jira_tickets # <<>>
    /\ context # <<>>
    /\ mpc = "done"

\* the place of each stage in an order of the stages
StatedOrder ==
    [load |-> 1, fetch |-> 2, assemble |-> 3, generation_call |-> 4, mint |-> 5,
     substitute |-> 6, save |-> 7, display |-> 8]
CodedOrder ==
    [fetch |-> 1, load |-> 2, assemble |-> 3, generation_call |-> 4, mint |-> 5,
     substitute |-> 6, save |-> 7, display |-> 8]

\* C14 as stated: in every run of main the stages happen in the order document
\* loading, record fetch, prompt assembly, generation call, link-minting call,
\* substitution, save, display, each at most once.
C14_StagesInStatedOrder ==
    \A i, j \in 1..Len(trace) :
        i < j => StatedOrder[trace[i]] < StatedOrder[trace[j]]

\* C14: in every run of main the stages happen in the order record fetch, document
\* loading, prompt assembly, generation call, link-minting call, substitution, save,
\* display; each at most once, except that the documents are loaded a second time,
\* just before the assembly, exactly when the first loading left no documents block.
C14_StagesInCodedOrder ==
    /\ \A i, j \in 1..Len(trace) :
            i < j =>
                \/ CodedOrder[trace[i]] < CodedOrder[trace[j]]
                \/ trace[i] = "load" /\ trace[j] = "load" /\ j = i + 1
    /\ Times("load") <= 2
    /\ (Happened("assemble") =>
            (Times("load") = 2 <=> NoSources(fs[inputs.prompts_folder])))
    /\ (Happened("mint") => Happened("substitute"))

\* a run that went through every stage, the minting call included
C14_Witness ==
    /\ mpc = "done"
    /\ trace = <<"fetch", "load", "assemble", "generation_call", "mint", "substitute",
                 "save", "display">>

\* C17: whatever credentials are missing and whichever backends fail, the run
\* executes the steps of the other backends (records are fetched, documents loaded,
\* the generation is requested) and no exception of a backend or of its
\* configuration ends the run.
C17_CredentialFailuresStayLocal ==
    /\ (mpc = "crashed" => op = "show_email_gui")
    /\ (mpc \in {"done", "crashed"} =>
            Happened("fetch") /\ Happened("load") /\ Happened("generation_call"))

\* C21: a generate_phishing_email call that finds the cached context empty loads the
\* documents of "./prompts", whatever directory main was given; that load is the
\* second one of the run, and its block is the documents block of the prompt.
C21_EmptyCacheLoadsDefault ==
    (op = "generate_phishing_email" /\ ~arg.cached) =>
        /\ prompts_dir = DefaultDir
        /\ SegVal(prompt, "documents") = load_prompts_context(fs[DefaultDir], <<>>).ret
        /\ load_ret = SegVal(prompt, "documents")
        /\ context = SegVal(prompt, "documents")
        /\ NoSources(fs[inputs.prompts_folder])
        /\ Times("load") = 2

\* main was given another directory, which had nothing to load, and the prompt
\* carries the documents of "./prompts"
C21_Witness ==
    /\ op = "generate_phishing_email"
    /\ ~arg.cached
    /\ inputs.prompts_folder = OtherDir
    /\ NoSources(fs[OtherDir])
    /\ SegVal(prompt, "documents") # <<>>
    /\ Times("load") = 2

\* C22: a load that returns early with the empty context leaves the cached context
\* as it was, a load that runs to its end replaces it by the block it returns; so a
\* generate_phishing_email call after a full load and a later empty load still sends
\* the documents block of the full load.
C22_EmptyLoadKeepsCache ==
    [][ /\ (op' = "load_prompts_context" =>
                IF NoSources(fs[prompts_dir'])
                THEN load_ret' = <<>> /\ context' = context
                ELSE load_ret' # <<>> /\ context' = load_ret')
        /\ ((op' = "generate_phishing_email" /\ context # <<>>) =>
                /\ SegVal(prompt', "documents") = context
                /\ context' = context) ]_vars

\* the last load returned the empty context and the prompt sent after it carries the
\* block of an earlier load
C22_Witness ==
    /\ op = "generate_phishing_email"
    /\ arg.cached
    /\ load_ret = <<>>
    /\ NoSources(fs[prompts_dir])
    /\ SegVal(prompt, "documents") # <<>>
    /\ SegVal(prompt, "documents") = context

\* the files of the current load that were truncated
TruncatedEntries == {i \in DOMAIN log : log[i].truncated}

\* C23: within a load total_chars never decreases and never exceeds the limit plus
\* the 15 characters of the truncation suffix; it exceeds the limit only when a
\* file of that load was truncated, and at most one file per load is truncated.
C23_ConsumedWithinLimitPlusSuffix ==
    /\ [](/\ total_chars <= max_context_chars + TruncSuffixLen
          /\ (total_chars > max_context_chars => TruncatedEntries # {})
          /\ Cardinality(TruncatedEntries) <= 1)
    /\ [][pc = "loop" => total_chars' >= total_chars]_vars

\* a load counted the limit plus the suffix after it truncated a file, and went on
\* to a later file
C23_Witness ==
    /\ total_chars = max_context_chars + TruncSuffixLen
    /\ \E i \in TruncatedEntries : i < Len(log)

\* the fetch failed: no connection, a refused query, or a record that cannot be
\* normalised
FetchFails ==
    \/ jira_backend.kind # "ok"
    \/ \E i \in DOMAIN jira_backend.issues :
            extract_issue_details(jira_backend.issues[i]).raised

\* C24: get_active_jira_issues_by_email never raises and returns either one summary
\* per raw record, in the order of the backend, or the empty list; it returns the
\* empty list whenever the connection, the query or the normalisation of any one
\* record fails, and fetch_jira_tickets stores what it returned.
C24_AllOrNothing ==
    op = "fetch_jira_tickets" =>
        /\ exc = FALSE
        /\ jira_tickets = ret
        /\ IF FetchFails THEN ret = <<>>
           ELSE /\ Len(ret) = Len(jira_backend.issues)
                /\ \A i \in DOMAIN ret :
                        ret[i] = extract_issue_details(jira_backend.issues[i]).data

\* the backend answered with a record that normalises followed by one that does not
C24_Witness ==
    /\ op = "fetch_jira_tickets"
    /\ jira_backend.kind = "ok"
    /\ Len(jira_backend.issues) >= 2
    /\ ~extract_issue_details(jira_backend.issues[1]).raised
    /\ extract_issue_details(jira_backend.issues[2]).raised
    /\ jira_tickets = <<>>

====
